---- MODULE Spec2Model ----
(***************************************************************************)
(* The allocation / trade-off engine of the healthcare cost modeler:       *)
(* app/config.py (category registry and trade-off rule table) and          *)
(* app/models.py (class CostModel).                                        *)
(*                                                                         *)
(* Percentages are Python floats in the source.  They are modelled as      *)
(* exact rationals <<n, d>> in lowest terms with d > 0, so that equality   *)
(* of two allocations is equality of the records; floating-point rounding  *)
(* is not modelled.                                                        *)
(***************************************************************************)
EXTENDS Integers, Sequences, FiniteSets, TLC

----------------------------------------------------------------------------
(* Rational arithmetic (the float operators +, -, *, / of models.py).      *)

Abs(x) == IF x < 0 THEN -x ELSE x

RECURSIVE GCD(_, _)
GCD(a, b) == IF b = 0 THEN a ELSE GCD(b, a % b)

\* n/d in lowest terms, d # 0
Rat(n, d) ==
    LET s == IF d < 0 THEN -1 ELSE 1
        g == GCD(Abs(n), Abs(d))
    IN  <<(s * n) \div g, (s * d) \div g>>

Pct(k) == <<k, 1>>

\* the operands are in lowest terms; the common denominator is their least
\* common multiple and products are reduced crosswise, which keeps the
\* intermediate integers small
RAdd(x, y) ==
    LET g == GCD(x[2], y[2])
    IN  Rat(x[1] * (y[2] \div g) + y[1] * (x[2] \div g), x[2] * (y[2] \div g))
RNeg(x)    == <<-x[1], x[2]>>
RSub(x, y) == RAdd(x, RNeg(y))
RMul(x, y) ==
    LET g1 == GCD(Abs(x[1]), y[2])
        g2 == GCD(Abs(y[1]), x[2])
    IN  IF x[1] = 0 \/ y[1] = 0 THEN <<0, 1>>
        ELSE <<(x[1] \div g1) * (y[1] \div g2), (x[2] \div g2) * (y[2] \div g1)>>
\* float division; the caller raises ZeroDivisionError when y is zero
RDiv(x, y) ==
    RMul(x, IF y[1] < 0 THEN <<-y[2], -y[1]>> ELSE <<y[2], y[1]>>)
RLess(x, y) == x[1] * y[2] < y[1] * x[2]

RECURSIVE SumOver(_, _)
\* sum(d.values()) restricted to the keys S
SumOver(f, S) ==
    IF S = {} THEN Pct(0)
    ELSE LET c == CHOOSE x \in S : TRUE
         IN  RAdd(f[c], SumOver(f, S \ {c}))

\* sum(d.values())
Sum(f) == SumOver(f, DOMAIN f)

----------------------------------------------------------------------------
(* app/config.py                                                           *)

COST_CATEGORIES ==
    << [id |-> "envelope",       base_percentage |-> Pct(15)],
       [id |-> "superstructure", base_percentage |-> Pct(20)],
       [id |-> "foundation",     base_percentage |-> Pct(10)],
       [id |-> "plumbing",       base_percentage |-> Pct(8)],
       [id |-> "mechanical",     base_percentage |-> Pct(18)],
       [id |-> "electrical",     base_percentage |-> Pct(12)],
       [id |-> "equipment",      base_percentage |-> Pct(7)],
       [id |-> "fees",           base_percentage |-> Pct(10)] >>

TRADE_OFF_RULES ==
    [ envelope       |-> [mechanical |-> Rat(-8, 10), electrical |-> Rat(-3, 10)],
      superstructure |-> [foundation |-> Rat(-6, 10)],
      plumbing       |-> [electrical |-> Rat(-6, 10), mechanical |-> Rat(-4, 10)] ]

DEFAULT_PROJECT_COST == 50000000

\* the registered category ids
CategoryIds == {COST_CATEGORIES[i].id : i \in DOMAIN COST_CATEGORIES}

\* {cat["id"]: cat["base_percentage"] for cat in COST_CATEGORIES}
BasePercentages ==
    [c \in CategoryIds |->
        COST_CATEGORIES[CHOOSE i \in DOMAIN COST_CATEGORIES :
                            COST_CATEGORIES[i].id = c].base_percentage ]

----------------------------------------------------------------------------
(* app/models.py: class CostModel.  An instance is the record              *)
(* [total_project_cost, base_allocations, current_allocations,             *)
(* adjustments].                                                           *)

\* {cat_id: 0.0 for cat_id in self.base_allocations}
ZeroAdjustments(self) == [c \in DOMAIN self.base_allocations |-> Pct(0)]

\* mutant: the adjustments start as a copy of the base allocations
CostModelInitAdjustmentsFromBase(cost) ==
    LET base == BasePercentages
    IN  [ total_project_cost  |-> cost,
          base_allocations    |-> base,
          current_allocations |-> base,
          adjustments         |-> base ]

\* CostModel.__init__
CostModelInit(cost) ==
    LET base == BasePercentages
    IN  [ total_project_cost  |-> cost,
          base_allocations    |-> base,
          current_allocations |-> base,
          adjustments         |-> [c \in DOMAIN base |-> Pct(0)] ]

\* mutant: the allocations are patched incrementally, never rebuilt from base
KeepCurrent(self) == self

\* update_allocation, "Reset all allocations to base"
ResetToBase(self) ==
    [self EXCEPT !.current_allocations = self.base_allocations,
                 !.adjustments = ZeroAdjustments(self)]

\* mutant: the change is measured from the current value (old_percentage)
DeltaFromCurrent(self, category_id, new_percentage) ==
    RSub(new_percentage, self.current_allocations[category_id])

\* delta = new_percentage - self.base_allocations[category_id]
Delta(self, category_id, new_percentage) ==
    RSub(new_percentage, self.base_allocations[category_id])

\* mutant: current_allocations is base_allocations itself, not a copy, so
\* the new value is written to both
DirectChangeThroughAlias(self, category_id, new_percentage, delta) ==
    [self EXCEPT !.current_allocations[category_id] = new_percentage,
                 !.base_allocations[category_id] = new_percentage,
                 !.adjustments[category_id] = delta]

\* mutant: the delta is recorded but the new value is never stored
DirectChangeNotStored(self, category_id, new_percentage, delta) ==
    [self EXCEPT !.adjustments[category_id] = delta]

\* update_allocation, "Apply the direct change"
ApplyDirectChange(self, category_id, new_percentage, delta) ==
    [self EXCEPT !.current_allocations[category_id] = new_percentage,
                 !.adjustments[category_id] = delta]

\* mutant: the multiplier is applied per unit, without the / 10
TradeOffAdjustmentPerUnit(delta, multiplier) == RMul(delta, multiplier)

\* adjustment = delta * multiplier / 10
TradeOffAdjustment(delta, multiplier) ==
    RDiv(RMul(delta, multiplier), Pct(10))

\* update_allocation, "Apply trade-off rules".  Each affected category is a
\* distinct key of the rule dict, so the loop adds one adjustment to each.
ApplyTradeOffRules(self, category_id, delta) ==
    IF category_id \in DOMAIN TRADE_OFF_RULES /\ delta # Pct(0)
    THEN LET rules == TRADE_OFF_RULES[category_id]
             adjustment(c) == TradeOffAdjustment(delta, rules[c])
         IN  [self EXCEPT
                !.current_allocations =
                    [c \in DOMAIN self.current_allocations |->
                        IF c \in DOMAIN rules
                        THEN RAdd(self.current_allocations[c], adjustment(c))
                        ELSE self.current_allocations[c]],
                !.adjustments =
                    [c \in DOMAIN self.adjustments |->
                        IF c \in DOMAIN rules
                        THEN RAdd(self.adjustments[c], adjustment(c))
                        ELSE self.adjustments[c]]]
    ELSE self

\* mutant: the allocations are left as the trade-off arithmetic made them
NormalizeSkipped(self) == [self |-> self, outcome |-> "returned"]

\* mutant: the factor is inverted, total / 100
NormalizeInverted(self) ==
    LET total == Sum(self.current_allocations)
    IN  [self |-> [self EXCEPT !.current_allocations =
                      [c \in DOMAIN self.current_allocations |->
                          RMul(self.current_allocations[c],
                               RDiv(total, Pct(100)))]],
         outcome |-> "returned"]

\* mutant: the missing total is spread evenly, not in proportion
NormalizeAdditive(self) ==
    LET total == Sum(self.current_allocations)
        share == RDiv(RSub(Pct(100), total),
                      Pct(Cardinality(DOMAIN self.current_allocations)))
    IN  [self |-> [self EXCEPT !.current_allocations =
                      [c \in DOMAIN self.current_allocations |->
                          RAdd(self.current_allocations[c], share)]],
         outcome |-> IF total = Pct(0) THEN "ZeroDivisionError"
                     ELSE "returned"]

\* mutant: a zero total divides to a non-finite factor (numpy semantics),
\* stored in every allocation as <<sign, 0>>
NormalizeNonFinite(self) ==
    LET total == Sum(self.current_allocations)
    IN  IF total = Pct(0)
        THEN [self |-> [self EXCEPT !.current_allocations =
                          [c \in DOMAIN self.current_allocations |->
                              <<IF self.current_allocations[c][1] < 0
                                THEN -1 ELSE 1, 0>>]],
              outcome |-> "returned"]
        ELSE [self |-> [self EXCEPT !.current_allocations =
                          [c \in DOMAIN self.current_allocations |->
                              RMul(self.current_allocations[c],
                                   RDiv(Pct(100), total))]],
              outcome |-> "returned"]

\* CostModel._normalize_allocations.  100.0 / total raises ZeroDivisionError
\* for a zero total, before any allocation is rescaled.
NormalizeAllocations(self) ==
    LET total == Sum(self.current_allocations)
    IN  IF total # Pct(100)
        THEN IF total = Pct(0)
             THEN [self |-> self, outcome |-> "ZeroDivisionError"]
             ELSE LET factor == RDiv(Pct(100), total)
                  IN  [self |-> [self EXCEPT !.current_allocations =
                                  [c \in DOMAIN self.current_allocations |->
                                      RMul(self.current_allocations[c], factor)]],
                       outcome |-> "returned"]
        ELSE [self |-> self, outcome |-> "returned"]

\* mutant: the lookup of the id fails only after the reset to base
UpdateAllocationLateLookup(self, category_id, new_percentage) ==
    IF category_id \notin DOMAIN self.current_allocations
    THEN [self |-> ResetToBase(self), outcome |-> "KeyError",
          at_normalize |-> self.current_allocations]
    ELSE LET delta == Delta(self, category_id, new_percentage)
             s3 == ApplyTradeOffRules(
                     ApplyDirectChange(ResetToBase(self), category_id,
                                       new_percentage, delta),
                     category_id, delta)
             n == NormalizeAllocations(s3)
         IN  [self |-> n.self, outcome |-> n.outcome,
              at_normalize |-> s3.current_allocations]

\* CostModel.update_allocation: the instance it leaves, how the call ends
\* ("returned", or the exception raised) and the allocations as they entered
\* _normalize_allocations.  self.current_allocations[category_id] raises
\* KeyError for an unregistered id before anything is assigned.
UpdateAllocation(self, category_id, new_percentage) ==
    IF category_id \notin DOMAIN self.current_allocations
    THEN [self |-> self, outcome |-> "KeyError",
          at_normalize |-> self.current_allocations]
    ELSE LET delta == Delta(self, category_id, new_percentage)
             s1 == ResetToBase(self)
             s2 == ApplyDirectChange(s1, category_id, new_percentage, delta)
             s3 == ApplyTradeOffRules(s2, category_id, delta)
             n  == NormalizeAllocations(s3)
         IN  [self |-> n.self, outcome |-> n.outcome,
              at_normalize |-> s3.current_allocations]

\* mutant: the adjustments survive a reset
ResetKeepsAdjustments(self) ==
    [self EXCEPT !.current_allocations = self.base_allocations]

\* CostModel.reset
Reset(self) ==
    [self EXCEPT !.current_allocations = self.base_allocations,
                 !.adjustments = ZeroAdjustments(self)]

\* total_project_cost in millions of dollars.  Dollar amounts are kept in
\* this unit, which leaves every ratio as it is and keeps the integers of the
\* rationals within 32 bits.
Dollars(cost) == Rat(cost, 1000000)

\* mutant: the percentage is not divided by 100
GetDollarAmountsNoPercent(self) ==
    [self |-> self,
     result |-> [c \in DOMAIN self.current_allocations |->
                   RMul(Dollars(self.total_project_cost),
                        self.current_allocations[c])]]

\* CostModel.get_dollar_amounts: the instance it leaves and the dict it
\* returns.  The method assigns to no field.
GetDollarAmounts(self) ==
    [self |-> self,
     result |-> [c \in DOMAIN self.current_allocations |->
                   RMul(Dollars(self.total_project_cost),
                        RDiv(self.current_allocations[c], Pct(100)))]]

\* mutant: the dollar amounts are written over the allocations
GetDeltasInPlace(self) ==
    LET current_dollars == GetDollarAmounts(self).result
    IN  [self |-> [self EXCEPT !.current_allocations = current_dollars],
         result |-> [c \in DOMAIN self.base_allocations |->
                       RSub(current_dollars[c],
                            RMul(Dollars(self.total_project_cost),
                                 RDiv(self.base_allocations[c], Pct(100))))]]

\* CostModel.get_deltas
GetDeltas(self) ==
    LET baseline_dollars ==
            [c \in DOMAIN self.base_allocations |->
                RMul(Dollars(self.total_project_cost),
                     RDiv(self.base_allocations[c], Pct(100)))]
        g == GetDollarAmounts(self)
        current_dollars == g.result
    IN  [self |-> g.self,
         result |-> [c \in DOMAIN baseline_dollars |->
                       RSub(current_dollars[c], baseline_dollars[c])]]

----------------------------------------------------------------------------
(* The inputs of the calls.                                                *)

\* dcc.Slider(min=0, max=30, step=0.5)
SliderMin == 0
SliderMax == 30
SliderStepsPerUnit == 2

\* every slider position
SliderValues ==
    {Rat(k, SliderStepsPerUnit) :
        k \in (SliderMin * SliderStepsPerUnit)..(SliderMax * SliderStepsPerUnit)}

\* the slider positions the calls are made with: both ends, every tenth
\* percent, a half step, 25 and the baseline of every category
SampledSliderValues ==
    {v \in SliderValues :
        \/ v[2] = 1 /\ v[1] % 10 = 0
        \/ v \in {Rat(1, 2), Pct(25)}
        \/ \E c \in CategoryIds : v = BasePercentages[c]}

\* how far below 0 and above 100 the out-of-range values go, in whole percent
MaxBelow == 1
MaxAbove == 1

\* the values base[c] - 100, which leave a zero total when c has no rules
ZeroingValues == {RSub(BasePercentages[c], Pct(100)) : c \in CategoryIds}

OutOfRangeValues ==
    {Pct(-k) : k \in 1..MaxBelow} \cup {Pct(100 + k) : k \in 0..MaxAbove}
        \cup ZeroingValues

NewValues == SampledSliderValues \cup OutOfRangeValues

\* the browser sessions served by the one Dash process
Sessions == {"A", "B"}

\* ids that are no registered category
UnknownIds == {"sitework"}

\* the argument recorded for a call that takes none
NoArg == "-"

\* how many reset() calls in a row are told apart
MaxResets == 2

\* the value passed with an unknown id, which the call never reads
UnknownIdValues == {Pct(25)}

----------------------------------------------------------------------------
(* The state: the fields of the one CostModel instance, and a record of    *)
(* the last call made on it.                                               *)

VARIABLES
    total_project_cost,   \* self.total_project_cost
    base_allocations,     \* self.base_allocations
    current_allocations,  \* self.current_allocations
    adjustments,          \* self.adjustments
    op,                   \* the last call: "__init__", "update_allocation",
                          \* "reset"
    resets,               \* the reset() calls in a row that led here,
                          \* counted up to MaxResets
    changed_before,       \* whether the instance differed from a fresh one
                          \* when the last call began
    arg_id,               \* category_id of the last call (NoArg: it has none)
    arg_value,            \* new_percentage of the last call (0: it has none)
    outcome,              \* how the last call ended: "returned", "KeyError"
                          \* or "ZeroDivisionError"
    at_normalize,         \* current_allocations as the last call had them
                          \* before any renormalization
    result,               \* the dict the last call returned, when it was
                          \* get_dollar_amounts or get_deltas (else all 0)
    repeats,              \* the calls of that getter in a row that led
                          \* here, counted up to MaxRepeats
    model_state,          \* per browser session, what update_model last
                          \* published to "model-state": <<>> or <<record>>
    output_values,        \* per session, the slider values update_model
                          \* last returned to it
    cb_session,           \* the session of the last update_model callback
    cb_trigger,           \* what triggered it: "initial", "reset", "slider"
    own_model,            \* per session, the CostModel that session would
                          \* hold if it shared it with no other session
    allocations,          \* streamlit_app.py: st.session_state.allocations
    st_op,                \* the last interaction there: "start", "slider",
                          \* "reset"
    st_id,                \* the slider moved (NoArg: none)
    st_value,             \* the value it was moved to
    engine,               \* the strategy engine that computed costs: "v1"
                          \* (hospital_cost_model.py), "v2"
                          \* (hospital_cost_model_v2.py), "none" before
    selected_strategies,  \* st.session_state.selected_strategies
    building_area,        \* st.session_state.building_area
    manual_mode,          \* v2: st.session_state.manual_mode
    cost_adjustments,     \* v2: st.session_state.cost_adjustments
    costs                 \* what the engine returned

\* the variables of the CostModel calls
modelVars == <<total_project_cost, base_allocations, current_allocations,
               adjustments, op, resets, changed_before,
               arg_id, arg_value, outcome, at_normalize, result, repeats>>

\* the variables of the Dash callback
dashVars == <<model_state, output_values, cb_session, cb_trigger, own_model>>

\* the variables of the Streamlit percentage-slider page
streamlitVars == <<allocations, st_op, st_id, st_value>>

\* the variables the CostModel calls leave alone
\* the variables of the two strategy pages
strategyVars == <<engine, selected_strategies, building_area, manual_mode,
                  cost_adjustments, costs>>

otherVars == <<dashVars, streamlitVars, strategyVars>>

vars == <<modelVars, otherVars>>

\* no getter has returned anything
NoResult == [c \in CategoryIds |-> Pct(0)]

\* the instance, as a record
Self ==
    [ total_project_cost  |-> total_project_cost,
      base_allocations    |-> base_allocations,
      current_allocations |-> current_allocations,
      adjustments         |-> adjustments ]

\* the instance is not as __init__ made it
Changed == Self # CostModelInit(total_project_cost)

\* the fields of the instance after a call left it as s
Store(s) ==
    /\ total_project_cost'  = s.total_project_cost
    /\ base_allocations'    = s.base_allocations
    /\ current_allocations' = s.current_allocations
    /\ adjustments'         = s.adjustments

\* app.py before any callback: nothing published, the sliders as
\* create_sliders made them, cost_model = CostModel(DEFAULT_PROJECT_COST)
DashInit ==
    /\ model_state = [s \in Sessions |-> << >>]
    /\ output_values = [s \in Sessions |-> BasePercentages]
    /\ cb_session = "A"
    /\ cb_trigger = "initial"
    /\ own_model = [s \in Sessions |-> CostModelInit(DEFAULT_PROJECT_COST)]

\* streamlit_app.py, "Initialize session state"
StreamlitInit ==
    /\ allocations =
          [ envelope |-> Pct(15), superstructure |-> Pct(20),
            foundation |-> Pct(10), plumbing |-> Pct(8),
            mechanical |-> Pct(18), electrical |-> Pct(12),
            equipment |-> Pct(7), fees |-> Pct(10) ]
    /\ st_op = "start"
    /\ st_id = NoArg
    /\ st_value = Pct(0)

\* the CSI divisions of the strategy pages (the keys of CSI_DIVISIONS)
Divisions ==
    {"substructure", "superstructure", "enclosure", "roofing", "interiors",
     "conveying", "plumbing", "mechanical", "fire_protection", "electrical",
     "equipment", "contractor_fees"}

DefaultArea == 250000

\* no engine has returned anything
NoCosts == << >>

\* hospital_cost_model*.py, "Initialize session state": nothing selected,
\* the default area, strategy mode, every manual adjustment 0
StrategySessionInit ==
    /\ engine = "none"
    /\ selected_strategies = << >>
    /\ building_area = DefaultArea
    /\ manual_mode = FALSE
    /\ cost_adjustments = [div \in Divisions |-> 0]
    /\ costs = NoCosts

\* the dashboard, its CostModel and the percentage-slider page as they start
AppInit ==
    LET s == CostModelInit(DEFAULT_PROJECT_COST)
    IN  /\ DashInit
        /\ StreamlitInit
        /\ total_project_cost  = s.total_project_cost
        /\ base_allocations    = s.base_allocations
        /\ current_allocations = s.current_allocations
        /\ adjustments         = s.adjustments
        /\ op = "__init__"
        /\ resets = 0
        /\ changed_before = FALSE
        /\ arg_id = NoArg
        /\ arg_value = Pct(0)
        /\ outcome = "returned"
        /\ at_normalize = s.current_allocations
        /\ result = NoResult
        /\ repeats = 0

Init == AppInit /\ StrategySessionInit

\* a call of cost_model.update_allocation(category_id, new_percentage)
update_allocation(category_id, new_percentage) ==
    \E r \in {UpdateAllocation(Self, category_id, new_percentage)} :
        /\ Store(r.self)
        /\ op' = "update_allocation"
        /\ resets' = 0
        /\ changed_before' = Changed
        /\ arg_id' = category_id
        /\ arg_value' = new_percentage
        /\ outcome' = r.outcome
        /\ at_normalize' = r.at_normalize
        /\ result' = NoResult
        /\ repeats' = 0
        /\ UNCHANGED otherVars

\* a call of cost_model.reset()
reset ==
    /\ Store(Reset(Self))
    /\ op' = "reset"
    /\ resets' = IF resets < MaxResets THEN resets + 1 ELSE resets
    /\ changed_before' = Changed
    /\ arg_id' = NoArg
    /\ arg_value' = Pct(0)
    /\ outcome' = "returned"
    /\ at_normalize' = current_allocations'
    /\ result' = NoResult
    /\ repeats' = 0
    /\ UNCHANGED otherVars

Next ==
    \/ \E category_id \in CategoryIds, new_percentage \in NewValues :
          update_allocation(category_id, new_percentage)
    \/ \E category_id \in UnknownIds, new_percentage \in UnknownIdValues :
          update_allocation(category_id, new_percentage)
    \/ reset

Spec == Init /\ [][Next]_vars

----------------------------------------------------------------------------
(* The claims.                                                             *)

\* the last call was update_allocation with a registered id
UpdatedRegistered == op = "update_allocation" /\ arg_id \in CategoryIds

\* the categories listed in the rules of driver d
Affected(d) ==
    IF d \in DOMAIN TRADE_OFF_RULES THEN DOMAIN TRADE_OFF_RULES[d] ELSE {}

\* an allocation holds only finite numbers
Finite(alloc) == \A c \in DOMAIN alloc : alloc[c][2] > 0

\* C1: conservation.  After every call that returns, the current
\* allocations sum to the sum of the baseline percentages, which is 100.
C1_Conservation ==
    outcome = "returned" =>
        /\ Sum(current_allocations) = Sum(base_allocations)
        /\ Sum(current_allocations) = Pct(100)

\* an update returned after renormalization rescaled an off-100 total
C1_Witness ==
    /\ UpdatedRegistered
    /\ outcome = "returned"
    /\ changed_before
    /\ Sum(at_normalize) # Pct(100)
    /\ current_allocations # at_normalize

\* C2: adjustment consistency.  In every reachable state every adjustment
\* is the current allocation minus the base allocation.
C2_AdjustmentConsistency ==
    \A c \in CategoryIds :
        adjustments[c] = RSub(current_allocations[c], base_allocations[c])

C4_ResetRestoresInitial ==
    op = "reset" =>
        /\ Self = CostModelInit(DEFAULT_PROJECT_COST)
        /\ current_allocations = BasePercentages
        /\ \A c \in CategoryIds : adjustments[c] = Pct(0)

\* a second reset() in a row has acted
C4_Witness == op = "reset" /\ resets = 2

\* C5: no-op change.  update_allocation(d, base[d]) leaves adjustments[d]
\* at 0 and every current allocation at base.
C5_NoOpChange ==
    (UpdatedRegistered /\ arg_value = BasePercentages[arg_id]) =>
        /\ outcome = "returned"
        /\ adjustments[arg_id] = Pct(0)
        /\ current_allocations = BasePercentages

\* a driver with rules was set to its base on a changed instance
C5_Witness ==
    /\ UpdatedRegistered
    /\ arg_id \in DOMAIN TRADE_OFF_RULES
    /\ arg_value = BasePercentages[arg_id]
    /\ changed_before

\* C6 as stated: after update_allocation(d, v) for a driver without rules,
\* every other category has its allocation at base and its adjustment at 0.
C6_NoSecondaryEffects_Original ==
    (UpdatedRegistered /\ arg_id \notin DOMAIN TRADE_OFF_RULES) =>
        \A c \in CategoryIds \ {arg_id} :
            /\ current_allocations[c] = BasePercentages[c]
            /\ adjustments[c] = Pct(0)

\* C6 amended: for a driver without rules every other category has its
\* adjustment at 0 and, before renormalization, its allocation at base; a
\* call that returns leaves it at base * 100 / (100 + v - base[d]).
C6_NoSecondaryEffects ==
    (UpdatedRegistered /\ arg_id \notin DOMAIN TRADE_OFF_RULES) =>
        \A c \in CategoryIds \ {arg_id} :
            /\ adjustments[c] = Pct(0)
            /\ at_normalize[c] = BasePercentages[c]
            /\ outcome = "returned" =>
                 current_allocations[c] =
                    RDiv(RMul(BasePercentages[c], Pct(100)),
                         RAdd(Pct(100),
                              RSub(arg_value, BasePercentages[arg_id])))

\* a driver without rules was moved off its base on a changed instance
C6_Witness ==
    /\ UpdatedRegistered
    /\ arg_id \notin DOMAIN TRADE_OFF_RULES
    /\ arg_value # BasePercentages[arg_id]
    /\ changed_before
    /\ outcome = "returned"

\* C7: history independence.  After update_allocation(d, v) on a registered
\* d, whatever came before, the allocations, the adjustments and the way the
\* call ended are those of the same call on a freshly constructed model.
C7_HistoryIndependence ==
    UpdatedRegistered =>
        LET fresh == UpdateAllocation(CostModelInit(DEFAULT_PROJECT_COST),
                                      arg_id, arg_value)
        IN  /\ current_allocations = fresh.self.current_allocations
            /\ adjustments = fresh.self.adjustments
            /\ outcome = fresh.outcome

\* an update that moved allocations was made on a changed instance
C7_Witness ==
    /\ UpdatedRegistered
    /\ changed_before
    /\ arg_id \in DOMAIN TRADE_OFF_RULES
    /\ arg_value # BasePercentages[arg_id]
    /\ current_allocations # BasePercentages

\* C8 as stated: for every registered id and every value update_allocation
\* returns, and the allocation it returns sums to 100.
C8_Robustness_Original ==
    UpdatedRegistered =>
        /\ outcome = "returned"
        /\ Sum(current_allocations) = Pct(100)

\* C8 amended: for every registered id and every value, update_allocation
\* returns an allocation that sums to 100 unless the allocations before
\* renormalization sum to 0, and then it raises ZeroDivisionError.
C8_Robustness ==
    UpdatedRegistered =>
        /\ Sum(at_normalize) # Pct(0) =>
             /\ outcome = "returned"
             /\ Sum(current_allocations) = Pct(100)
        /\ Sum(at_normalize) = Pct(0) => outcome = "ZeroDivisionError"

\* an update with a value below 0 or above 100 returned
C8_Witness ==
    /\ UpdatedRegistered
    /\ outcome = "returned"
    /\ RLess(arg_value, Pct(0)) \/ RLess(Pct(100), arg_value)
    /\ Sum(at_normalize) # Pct(100)

\* C9: zero total.  When the allocations before renormalization sum to 0,
\* as for ("equipment", -93), update_allocation ends in an error, and no
\* allocation ever stored is infinite or undefined.
C9_ZeroTotalIsError ==
    /\ Finite(current_allocations)
    /\ (UpdatedRegistered /\ Sum(at_normalize) = Pct(0)) =>
          outcome = "ZeroDivisionError"
    /\ (UpdatedRegistered /\ arg_id = "equipment" /\ arg_value = Pct(-93)) =>
          outcome = "ZeroDivisionError"

\* update_allocation("equipment", -93) met a zero total
C9_Witness ==
    /\ UpdatedRegistered
    /\ arg_id = "equipment"
    /\ arg_value = Pct(-93)
    /\ Sum(at_normalize) = Pct(0)

\* C10: unknown id.  A call of update_allocation with an unregistered id
\* ends in an error and leaves current_allocations and adjustments as they
\* were before the call.
C10_UnknownIdFailsFast ==
    [][(op' = "update_allocation" /\ arg_id' \notin CategoryIds) =>
          /\ outcome' = "KeyError"
          /\ current_allocations' = current_allocations
          /\ adjustments' = adjustments]_vars

\* an unknown id was passed to an instance holding changed allocations
C10_Witness ==
    /\ op = "update_allocation"
    /\ arg_id \notin CategoryIds
    /\ outcome = "KeyError"
    /\ changed_before
    /\ current_allocations # BasePercentages

\* C11: renormalization keeps proportions.  After a call that returns, for
\* every pair of categories a, b the allocations after and before
\* _normalize_allocations satisfy final[a]*pre[b] = final[b]*pre[a], every
\* value being the one before scaled by 100/sum.
C11_ProportionsPreserved ==
    (UpdatedRegistered /\ outcome = "returned") =>
        /\ \A a, b \in CategoryIds :
              RMul(current_allocations[a], at_normalize[b])
                = RMul(current_allocations[b], at_normalize[a])
        /\ \A c \in CategoryIds :
              current_allocations[c]
                = RDiv(RMul(at_normalize[c], Pct(100)), Sum(at_normalize))

\* renormalization rescaled the allocations a driver with rules left
C11_Witness ==
    /\ UpdatedRegistered
    /\ outcome = "returned"
    /\ arg_id \in DOMAIN TRADE_OFF_RULES
    /\ Sum(at_normalize) # Pct(100)
    /\ current_allocations # at_normalize
    /\ \E c \in CategoryIds : at_normalize[c] # BasePercentages[c] /\ c # arg_id

----------------------------------------------------------------------------
(* The derived metrics: CostModel.get_dollar_amounts and get_deltas, called *)
(* between updates, resets and changes of total_project_cost.              *)

\* the total costs the caller sets: none, the step of the input, the default
\* and one step above it
CostValues ==
    {0, 1000000, DEFAULT_PROJECT_COST, DEFAULT_PROJECT_COST + 1000000}

\* the values the metrics are derived from
MetricsValues == {Pct(SliderMin), Pct(25), Rat(1, 2)}

\* how many calls of a getter in a row are told apart
MaxRepeats == 2

\* cost_model.total_project_cost = total_cost
set_total_project_cost(cost) ==
    /\ total_project_cost' = cost
    /\ UNCHANGED <<base_allocations, current_allocations, adjustments>>
    /\ op' = "set_total_project_cost"
    /\ resets' = 0
    /\ changed_before' = Changed
    /\ arg_id' = NoArg
    /\ arg_value' = Pct(0)
    /\ outcome' = "returned"
    /\ at_normalize' = current_allocations
    /\ result' = NoResult
    /\ repeats' = 0
    /\ UNCHANGED otherVars

\* the record of a getter call that left the instance as r.self and
\* returned r.result
GetterCall(name, r) ==
    /\ Store(r.self)
    /\ op' = name
    /\ resets' = 0
    /\ changed_before' = Changed
    /\ arg_id' = NoArg
    /\ arg_value' = Pct(0)
    /\ outcome' = "returned"
    /\ at_normalize' = current_allocations'
    /\ result' = r.result
    /\ repeats' = IF op # name THEN 1
                  ELSE IF repeats < MaxRepeats THEN repeats + 1 ELSE repeats
    /\ UNCHANGED otherVars

\* a call of cost_model.get_dollar_amounts()
get_dollar_amounts ==
    \E r \in {GetDollarAmounts(Self)} : GetterCall("get_dollar_amounts", r)

\* a call of cost_model.get_deltas()
get_deltas ==
    \E r \in {GetDeltas(Self)} : GetterCall("get_deltas", r)

MetricsNext ==
    \/ \E cost \in CostValues : set_total_project_cost(cost)
    \/ \E category_id \in CategoryIds, new_percentage \in MetricsValues :
          update_allocation(category_id, new_percentage)
    \/ reset
    \/ get_dollar_amounts
    \/ get_deltas

SpecMetrics == Init /\ [][MetricsNext]_vars

Getters == {"get_dollar_amounts", "get_deltas"}

C13_GettersReadOnly ==
    [][op' \in Getters =>
          /\ UNCHANGED <<current_allocations, adjustments,
                         base_allocations, total_project_cost>>
          /\ op = op' => result' = result]_vars

\* get_deltas was called twice in a row on a changed instance and
\* returned a delta
C13_Witness ==
    /\ op = "get_deltas"
    /\ repeats = 2
    /\ current_allocations # BasePercentages
    /\ \E c \in CategoryIds : result[c] # Pct(0)

----------------------------------------------------------------------------
(* app/app.py: the update_model callback, run by one server process for    *)
(* every browser session against the module-level cost_model.  A callback  *)
(* runs from its first to its last line as one step.                       *)

\* the sliders moved and the positions they are moved to
DashSliderIds == {"envelope", "fees"}
DashSliderValues == {Pct(25)}

\* the values of total-cost-input the callbacks are made with
DashCosts == {DEFAULT_PROJECT_COST, DEFAULT_PROJECT_COST + 1000000}

\* json.dumps of the published dict: a record of the three fields; the
\* floats are written in full and read back as they were
JsonDumps(allocs, adjs, total_cost) ==
    [allocations |-> allocs, adjustments |-> adjs,
     total_cost |-> total_cost]

\* mutant: total_cost is published but never assigned to the model
UpdateModelTotalNotStored(self, trigger, category_id, new_value, total_cost) ==
    LET r == IF trigger = "reset"
             THEN [self |-> Reset(self), outcome |-> "returned"]
             ELSE IF trigger = "slider"
             THEN UpdateAllocation(self, category_id, new_value)
             ELSE [self |-> self, outcome |-> "returned"]
    IN  [self |-> r.self, outcome |-> r.outcome,
         output_values |-> r.self.current_allocations,
         model_state |-> JsonDumps(r.self.current_allocations,
                                   r.self.adjustments, total_cost)]

\* update_model: the cost_model it leaves, how it ends, and the slider
\* values and the model state it returns when it returns.  trigger is
\* "reset" for reset-btn.n_clicks, "slider" for slider-<category_id>.value,
\* "initial" when ctx.triggered is empty.
UpdateModel(self, trigger, category_id, new_value, total_cost) ==
    LET s0 == [self EXCEPT !.total_project_cost = total_cost]
        r  == IF trigger = "reset"
              THEN [self |-> Reset(s0), outcome |-> "returned"]
              ELSE IF trigger = "slider"
              THEN LET u == UpdateAllocation(s0, category_id, new_value)
                   IN  IF u.outcome = "returned"
                       THEN [self |-> GetDeltas(u.self).self,
                             outcome |-> "returned"]
                       ELSE [self |-> u.self, outcome |-> u.outcome]
              ELSE [self |-> GetDeltas(s0).self, outcome |-> "returned"]
    IN  [self |-> r.self, outcome |-> r.outcome,
         output_values |->
            IF trigger = "reset" THEN BasePercentages
            ELSE r.self.current_allocations,
         model_state |-> JsonDumps(r.self.current_allocations,
                                   r.self.adjustments, total_cost)]

\* a callback of session s
update_model(s, trigger, category_id, new_value, total_cost) ==
    \E r \in {UpdateModel(Self, trigger, category_id, new_value, total_cost)},
       own \in {UpdateModel(own_model[s], trigger, category_id, new_value,
                            total_cost)} :
        /\ Store(r.self)
        /\ op' = "update_model"
        /\ resets' = 0
        /\ changed_before' = Changed
        /\ arg_id' = category_id
        /\ arg_value' = new_value
        /\ outcome' = r.outcome
        /\ at_normalize' = current_allocations'
        /\ result' = NoResult
        /\ repeats' = 0
        /\ cb_session' = s
        /\ cb_trigger' = trigger
        /\ own_model' = [own_model EXCEPT ![s] = own.self]
        /\ UNCHANGED <<streamlitVars, strategyVars>>
        /\ IF r.outcome = "returned"
           THEN /\ model_state' = [model_state EXCEPT ![s] = <<r.model_state>>]
                /\ output_values' = [output_values EXCEPT ![s] = r.output_values]
           ELSE UNCHANGED <<model_state, output_values>>

DashNext ==
    \E s \in Sessions, total_cost \in DashCosts :
        \/ update_model(s, "initial", NoArg, Pct(0), total_cost)
        \/ update_model(s, "reset", NoArg, Pct(0), total_cost)
        \/ \E category_id \in DashSliderIds, new_value \in DashSliderValues :
              update_model(s, "slider", category_id, new_value, total_cost)

SpecDash == Init /\ [][DashNext]_vars

\* the last step was an update_model callback that returned
CallbackReturned == op = "update_model" /\ outcome = "returned"

\* C14: session isolation.  The allocations and adjustments a callback
\* returns to a session are those of a model that only this session's own
\* slider changes and resets have acted on.
C14_SessionIsolation ==
    CallbackReturned =>
        /\ output_values[cb_session]
              = (IF cb_trigger = "reset" THEN BasePercentages
                 ELSE own_model[cb_session].current_allocations)
        /\ model_state[cb_session][1].allocations
              = own_model[cb_session].current_allocations
        /\ model_state[cb_session][1].adjustments
              = own_model[cb_session].adjustments

\* C20: serialized state.  After every update_model callback that returns,
\* the model state published to its session has exactly the fields
\* allocations, adjustments and total_cost; the first two are maps over all
\* registered ids equal to the engine's current_allocations and adjustments,
\* and total_cost is the engine's total_project_cost.
C20_SerializedState ==
    CallbackReturned =>
        /\ Len(model_state[cb_session]) = 1
        /\ LET published == model_state[cb_session][1]
           IN  /\ DOMAIN published = {"allocations", "adjustments", "total_cost"}
               /\ DOMAIN published.allocations = CategoryIds
               /\ DOMAIN published.adjustments = CategoryIds
               /\ published.allocations = current_allocations
               /\ published.adjustments = adjustments
               /\ published.total_cost = total_project_cost

\* a slider callback published rescaled allocations and a total cost other
\* than the default, after another session had published its own
C20_Witness ==
    /\ CallbackReturned
    /\ cb_trigger = "slider"
    /\ total_project_cost # DEFAULT_PROJECT_COST
    /\ current_allocations # BasePercentages
    /\ \E s \in Sessions \ {cb_session} : model_state[s] # << >>

----------------------------------------------------------------------------
(* streamlit_app.py: the percentage-slider page.  One interaction is one   *)
(* run of the script up to st.rerun().                                     *)

\* CATEGORIES: the base of every category
CATEGORIES ==
    [ envelope       |-> [base |-> Pct(15)],
      superstructure |-> [base |-> Pct(20)],
      foundation     |-> [base |-> Pct(10)],
      plumbing       |-> [base |-> Pct(8)],
      mechanical     |-> [base |-> Pct(18)],
      electrical     |-> [base |-> Pct(12)],
      equipment      |-> [base |-> Pct(7)],
      fees           |-> [base |-> Pct(10)] ]

TRADE_RULES ==
    [ envelope       |-> [mechanical |-> Rat(-8, 10), electrical |-> Rat(-3, 10)],
      superstructure |-> [foundation |-> Rat(-6, 10)],
      plumbing       |-> [electrical |-> Rat(-6, 10), mechanical |-> Rat(-4, 10)] ]

\* the slider handler ("If value changed, apply trade-off rules"): the
\* allocations it leaves when slider cat_id returned value
SliderChanged(alloc, cat_id, value) ==
    LET base  == [cid \in DOMAIN alloc |-> CATEGORIES[cid].base]
        a1    == [base EXCEPT ![cat_id] = value]
        delta == RSub(value, CATEGORIES[cat_id].base)
    IN  IF cat_id \in DOMAIN TRADE_RULES /\ delta # Pct(0)
        THEN [cid \in DOMAIN a1 |->
                IF cid \in DOMAIN TRADE_RULES[cat_id]
                THEN RAdd(a1[cid],
                          RDiv(RMul(delta, TRADE_RULES[cat_id][cid]), Pct(10)))
                ELSE a1[cid]]
        ELSE a1

\* the "Reset to Baseline" button
ResetToBaseline(alloc) == [cid \in DOMAIN alloc |-> CATEGORIES[cid].base]

\* the user moves slider cat_id to value, which differs from the value shown
slider_change(cat_id, value) ==
    /\ value # allocations[cat_id]
    /\ allocations' = SliderChanged(allocations, cat_id, value)
    /\ st_op' = "slider"
    /\ st_id' = cat_id
    /\ st_value' = value
    /\ UNCHANGED <<modelVars, dashVars, strategyVars>>

\* the user clicks "Reset to Baseline"
reset_button ==
    /\ allocations' = ResetToBaseline(allocations)
    /\ st_op' = "reset"
    /\ st_id' = NoArg
    /\ st_value' = Pct(0)
    /\ UNCHANGED <<modelVars, dashVars, strategyVars>>

StreamlitNext ==
    \/ \E cat_id \in DOMAIN CATEGORIES, value \in SliderValues :
          slider_change(cat_id, value)
    \/ reset_button

SpecStreamlit == Init /\ [][StreamlitNext]_vars

\* C15: conservation in the Streamlit variant.  After a slider change for
\* any category to any value of its range, st.session_state.allocations
\* sums to 100.
C15_StreamlitConservation ==
    st_op = "slider" => Sum(allocations) = Pct(100)

----------------------------------------------------------------------------
(* hospital_cost_model.py (v1) and hospital_cost_model_v2.py (v2): the     *)
(* strategy engines.  Costs are dollars, as exact rationals.               *)

\* CSI_DIVISIONS, the same in both files
CSI_DIVISIONS ==
    [ substructure    |-> [base_cost_psf |-> 18],
      superstructure  |-> [base_cost_psf |-> 95],
      enclosure       |-> [base_cost_psf |-> 45],
      roofing         |-> [base_cost_psf |-> 12],
      interiors       |-> [base_cost_psf |-> 85],
      conveying       |-> [base_cost_psf |-> 15],
      plumbing        |-> [base_cost_psf |-> 25],
      mechanical      |-> [base_cost_psf |-> 110],
      fire_protection |-> [base_cost_psf |-> 8],
      electrical      |-> [base_cost_psf |-> 65],
      equipment       |-> [base_cost_psf |-> 45],
      contractor_fees |-> [base_cost_psf |-> 78] ]

\* the keys of STRATEGIES, in the order of the dict
STRATEGIES ==
    <<"envelope_mechanical", "structural_innovation", "waste_heat_recovery">>

\* INTERDEPENDENCY_MATRIX, the same in both files: percent change per division
INTERDEPENDENCY_MATRIX ==
    [ envelope_mechanical |->
        [ substructure |-> 0, superstructure |-> -2, enclosure |-> 25,
          roofing |-> 15, interiors |-> 0, conveying |-> 0, plumbing |-> -5,
          mechanical |-> -20, fire_protection |-> 0, electrical |-> -10,
          equipment |-> 5, contractor_fees |-> 3 ],
      structural_innovation |->
        [ substructure |-> 15, superstructure |-> 20, enclosure |-> -5,
          roofing |-> -8, interiors |-> -10, conveying |-> 5, plumbing |-> -3,
          mechanical |-> -8, fire_protection |-> 2, electrical |-> -5,
          equipment |-> 0, contractor_fees |-> 5 ],
      waste_heat_recovery |->
        [ substructure |-> 2, superstructure |-> 0, enclosure |-> 5,
          roofing |-> 8, interiors |-> 0, conveying |-> 0, plumbing |-> 15,
          mechanical |-> 10, fire_protection |-> 0, electrical |-> -15,
          equipment |-> 20, contractor_fees |-> 8 ] ]

\* COMBINATION_EFFECTS (v1 only), keyed by the sorted pair
COMBINATION_EFFECTS ==
    (<<"envelope_mechanical", "structural_innovation">> :>
        [superstructure |-> -3, mechanical |-> -5, contractor_fees |-> -2])
    @@ (<<"envelope_mechanical", "waste_heat_recovery">> :>
        [mechanical |-> -8, electrical |-> -5, equipment |-> -3])
    @@ (<<"structural_innovation", "waste_heat_recovery">> :>
        [superstructure |-> 2, plumbing |-> -2, mechanical |-> -3])

\* the elements of a list
Range(seq) == {seq[i] : i \in DOMAIN seq}

\* tuple(sorted([a, b])): the three ids sort as STRATEGIES lists them
ComboKey(a, b) ==
    LET rank(x) == CHOOSE i \in DOMAIN STRATEGIES : STRATEGIES[i] = x
    IN  IF rank(a) <= rank(b) THEN <<a, b>> ELSE <<b, a>>

\* base_costs: base_cost_psf * building_area per division
BaseCosts(area) ==
    [div \in DOMAIN CSI_DIVISIONS |-> Pct(CSI_DIVISIONS[div].base_cost_psf * area)]

\* mutant: the percentage itself is taken as the factor
ScaleByEffect(cost, effect) == RMul(cost, Rat(effect, 100))

\* cost *= (1 + effect / 100)
Scale(cost, effect) == RMul(cost, Rat(100 + effect, 100))

\* for division, effect in effects.items(): costs[division] *= (1 + effect/100)
ApplyEffects(cs, effects) ==
    [div \in DOMAIN cs |->
        IF div \in DOMAIN effects THEN Scale(cs[div], effects[div]) ELSE cs[div]]

RECURSIVE ApplyCombinations(_, _, _)
\* v1, "Apply combination effects": the loop over the list others
ApplyCombinations(cs, strategy, others) ==
    IF others = << >> THEN cs
    ELSE LET other_strategy == Head(others)
             combo_key == ComboKey(strategy, other_strategy)
         IN  ApplyCombinations(
                 IF /\ other_strategy # strategy
                    /\ combo_key \in DOMAIN COMBINATION_EFFECTS
                 THEN ApplyEffects(cs, COMBINATION_EFFECTS[combo_key])
                 ELSE cs,
                 strategy, Tail(others))

\* mutant: the combination loop runs over every strategy, selected or not
StrategyCostsAnyPartner(strategy, selected, base_costs) ==
    IF strategy \in Range(selected)
    THEN ApplyCombinations(
             ApplyEffects(base_costs, INTERDEPENDENCY_MATRIX[strategy]),
             strategy, STRATEGIES)
    ELSE base_costs

\* v1, the body of "for strategy in STRATEGIES.keys()": results[strategy]
StrategyCosts(strategy, selected, base_costs) ==
    IF strategy \in Range(selected)
    THEN ApplyCombinations(
             ApplyEffects(base_costs, INTERDEPENDENCY_MATRIX[strategy]),
             strategy, selected)
    ELSE base_costs

\* v1: calculate_strategy_costs(selected_strategies, building_area)
CalculateStrategyCosts(selected, area) ==
    LET base_costs == BaseCosts(area)
    IN  [k \in Range(STRATEGIES) \cup {"baseline"} |->
            IF k = "baseline" THEN base_costs
            ELSE StrategyCosts(k, selected, base_costs)]

RECURSIVE CombinedCosts(_, _)
\* v2, "Combined effect for all selected strategies"
CombinedCosts(cs, selected) ==
    IF selected = << >> THEN cs
    ELSE CombinedCosts(ApplyEffects(cs, INTERDEPENDENCY_MATRIX[Head(selected)]),
                       Tail(selected))

\* mutant: the individual results start from the combined costs
CalculateCostsIndividualFromCombined(area, adjs, selected, manual) ==
    LET base_costs == BaseCosts(area)
    IN  IF manual
        THEN [k \in {"manual", "baseline"} |->
                IF k = "baseline" THEN base_costs
                ELSE [div \in DOMAIN base_costs |->
                        Scale(base_costs[div], adjs[div])]]
        ELSE [k \in {"baseline"}
                    \cup (IF selected # << >>
                          THEN {"combined"} \cup Range(selected) ELSE {}) |->
                IF k = "baseline" THEN base_costs
                ELSE IF k = "combined" THEN CombinedCosts(base_costs, selected)
                ELSE ApplyEffects(CombinedCosts(base_costs, selected),
                                  INTERDEPENDENCY_MATRIX[k])]

\* v2: calculate_costs_with_adjustments(building_area, cost_adjustments,
\* selected_strategies); manual stands for st.session_state.manual_mode,
\* which the function reads
CalculateCostsWithAdjustments(area, adjs, selected, manual) ==
    LET base_costs == BaseCosts(area)
    IN  IF manual
        THEN [k \in {"manual", "baseline"} |->
                IF k = "baseline" THEN base_costs
                ELSE [div \in DOMAIN base_costs |->
                        Scale(base_costs[div], adjs[div])]]
        ELSE [k \in {"baseline"}
                    \cup (IF selected # << >>
                          THEN {"combined"} \cup Range(selected) ELSE {}) |->
                IF k = "baseline" THEN base_costs
                ELSE IF k = "combined" THEN CombinedCosts(base_costs, selected)
                ELSE ApplyEffects(base_costs, INTERDEPENDENCY_MATRIX[k])]

\* the inputs: every list of distinct strategies in every order, areas on the
\* grid of the number input, and manual adjustments at the ends of the sliders
Selections ==
    {sel \in UNION {[1..n -> Range(STRATEGIES)] : n \in 0..Len(STRATEGIES)} :
        \A i, j \in DOMAIN sel : sel[i] = sel[j] => i = j}

AreaMin  == 50000
AreaMax  == 1000000
AreaStep == 10000
BuildingAreas == {AreaMin, DefaultArea, DefaultArea + AreaStep, AreaMax}

ManualMin == -50
ManualMax == 50
ManualAdjustments ==
    LET zero == [div \in Divisions |-> 0]
    IN  {zero} \cup {[zero EXCEPT !["mechanical"] = v] : v \in {ManualMin, ManualMax}}

\* a page with its inputs set and nothing computed yet
StrategyInit ==
    /\ AppInit
    /\ engine = "none"
    /\ selected_strategies \in Selections
    /\ building_area \in BuildingAreas
    /\ manual_mode \in BOOLEAN
    /\ cost_adjustments \in ManualAdjustments
    /\ costs = NoCosts

\* v1: costs = calculate_strategy_costs(selected_strategies, building_area)
calculate_strategy_costs ==
    /\ engine = "none"
    /\ engine' = "v1"
    /\ costs' = CalculateStrategyCosts(selected_strategies, building_area)
    /\ UNCHANGED <<selected_strategies, building_area, manual_mode,
                   cost_adjustments>>
    /\ UNCHANGED <<modelVars, dashVars, streamlitVars>>

\* v2: costs = calculate_costs_with_adjustments(...)
calculate_costs_with_adjustments ==
    /\ engine = "none"
    /\ engine' = "v2"
    /\ costs' = CalculateCostsWithAdjustments(building_area, cost_adjustments,
                                              selected_strategies, manual_mode)
    /\ UNCHANGED <<selected_strategies, building_area, manual_mode,
                   cost_adjustments>>
    /\ UNCHANGED <<modelVars, dashVars, streamlitVars>>

StrategyNext ==
    \/ calculate_strategy_costs
    \/ calculate_costs_with_adjustments

SpecStrategy == StrategyInit /\ [][StrategyNext]_vars

\* an engine computed per-strategy costs (v2: in strategy mode)
StrategyResults == engine = "v1" \/ (engine = "v2" /\ ~manual_mode)

\* C16: single-strategy cost.  When exactly one strategy s is selected, the
\* cost either engine reports for s is, for every division,
\* base_cost_psf * building_area * (1 + effect(s, division)/100); with area
\* 250,000 and envelope_mechanical selected, mechanical is 22,000,000.
C16_SingleStrategyCost ==
    (StrategyResults /\ Len(selected_strategies) = 1) =>
        LET s == selected_strategies[1]
        IN  /\ \A div \in Divisions :
                  costs[s][div] =
                      RMul(Pct(CSI_DIVISIONS[div].base_cost_psf * building_area),
                           Rat(100 + INTERDEPENDENCY_MATRIX[s][div], 100))
            /\ (s = "envelope_mechanical" /\ building_area = 250000) =>
                  costs[s]["mechanical"] = Pct(22000000)

\* v1 computed the costs of envelope_mechanical alone at 250,000 sq ft
C16_Witness ==
    /\ engine = "v1"
    /\ selected_strategies = <<"envelope_mechanical">>
    /\ building_area = 250000
    /\ costs["envelope_mechanical"]["mechanical"] = Pct(22000000)

\* the combination rules whose two drivers are both in the set S
RulesWithin(S) ==
    {k \in DOMAIN COMBINATION_EFFECTS : {k[1], k[2]} \subseteq S}

RECURSIVE ApplyRules(_, _, _)
\* cs after the rules of table with keys in keys, each applied once as its
\* own factor
ApplyRules(cs, table, keys) ==
    IF keys = {} THEN cs
    ELSE LET k == CHOOSE x \in keys : TRUE
         IN  ApplyRules(ApplyEffects(cs, table[k]), table, keys \ {k})

RECURSIVE ApplyStrategies(_, _)
\* cs after the primary effects of every strategy of the set S
ApplyStrategies(cs, S) ==
    IF S = {} THEN cs
    ELSE LET x == CHOOSE y \in S : TRUE
         IN  ApplyStrategies(ApplyEffects(cs, INTERDEPENDENCY_MATRIX[x]), S \ {x})

\* Policy B for the active set S: the baseline, times (1 + effect/100) for
\* every strategy of S, then the rule of every pair of table within S
PolicyB(S, area, table) ==
    ApplyRules(ApplyStrategies(BaseCosts(area), S), table,
               {k \in DOMAIN table : {k[1], k[2]} \subseteq S})

\* v2 defines no combination rules
NoRules == [k \in {} |-> << >>]

\* C17: Policy B composition.  For any set S of concurrently active
\* strategies the cost an engine reports for the selection is, for every
\* division, the baseline times (1 + effect/100) for every strategy in S,
\* then adjusted by the combination rule of every pair within S.  For v1,
\* which reports one result per strategy, it is enough that the result of
\* some selected strategy is that cost; for v2 it is the combined result,
\* v2 having no combination rules.
C17_PolicyBComposition ==
    LET S == Range(selected_strategies)
    IN  /\ (engine = "v1" /\ S # {}) =>
              \E s \in S :
                  costs[s] = PolicyB(S, building_area, COMBINATION_EFFECTS)
        /\ (engine = "v2" /\ ~manual_mode /\ S # {}) =>
              costs["combined"] = PolicyB(S, building_area, NoRules)

\* C18: combination effects need both drivers.  In calculate_strategy_costs
\* every result is the strategy's primary result (the baseline, for a
\* strategy not selected) changed by nothing but combination rules whose two
\* drivers are both selected; with zero or one selected strategy no
\* combination rule is applied to any result.
C18_CombinationsNeedBothDrivers ==
    engine = "v1" =>
        LET S == Range(selected_strategies)
            base_costs == BaseCosts(building_area)
            primary(s) ==
                IF s \in S
                THEN ApplyEffects(base_costs, INTERDEPENDENCY_MATRIX[s])
                ELSE base_costs
        IN  /\ \A s \in Range(STRATEGIES) :
                  \E R \in SUBSET RulesWithin(S) :
                      costs[s] = ApplyRules(primary(s), COMBINATION_EFFECTS, R)
            /\ Cardinality(S) <= 1 =>
                  \A s \in Range(STRATEGIES) : costs[s] = primary(s)

\* two strategies were selected: their rule changed the result of one of
\* them, and no rule changed the result of the third strategy
C18_Witness ==
    /\ engine = "v1"
    /\ selected_strategies = <<"structural_innovation", "envelope_mechanical">>
    /\ building_area = DefaultArea
    /\ costs["envelope_mechanical"]["mechanical"] = Pct(20900000)
    /\ costs["waste_heat_recovery"] = costs["baseline"]

RECURSIVE SumEffects(_, _)
\* the sum of the percentages the rules keys give for division div
SumEffects(div, keys) ==
    IF keys = {} THEN 0
    ELSE LET k == CHOOSE x \in keys : TRUE
         IN  (IF div \in DOMAIN COMBINATION_EFFECTS[k]
              THEN COMBINATION_EFFECTS[k][div] ELSE 0)
             + SumEffects(div, keys \ {k})

\* C19: combination effects are additive.  When several combination rules
\* apply to the same division of a strategy's result, the result is the
\* primary result adjusted once by the sum of their percentages.
C19_CombinationsAdditive ==
    engine = "v1" =>
        LET S == Range(selected_strategies)
            base_costs == BaseCosts(building_area)
        IN  \A s \in S : \A div \in Divisions :
                costs[s][div] =
                    RMul(ApplyEffects(base_costs, INTERDEPENDENCY_MATRIX[s])[div],
                         Rat(100 + SumEffects(div, {k \in RulesWithin(S) :
                                                      s \in {k[1], k[2]}}),
                             100))

----------------------------------------------------------------------------
(* Further claims about CostModel, checked under Spec.                     *)

\* C21: initial state.  A freshly constructed CostModel has
\* current_allocations equal to the configured baseline percentages, every
\* adjustment 0, and baseline percentages that sum to exactly 100.
C21_InitialState ==
    /\ op = "__init__" =>
          /\ current_allocations = BasePercentages
          /\ base_allocations = BasePercentages
          /\ \A c \in CategoryIds : adjustments[c] = Pct(0)
          /\ Sum(base_allocations) = Pct(100)
    /\ \A cost \in CostValues :
          LET m == CostModelInit(cost)
          IN  /\ m.current_allocations = BasePercentages
              /\ \A c \in CategoryIds : m.adjustments[c] = Pct(0)
              /\ Sum(m.base_allocations) = Pct(100)
              /\ m.total_project_cost = cost

\* the model as CostModel(DEFAULT_PROJECT_COST) left it, no call made yet
C21_Witness ==
    /\ op = "__init__"
    /\ total_project_cost = DEFAULT_PROJECT_COST
    /\ current_allocations["envelope"] = Pct(15)
    /\ adjustments["envelope"] = Pct(0)

\* C22 as stated: after update_allocation(d, v) returns,
\* current_allocations[d] equals the requested v, for every registered d
\* and every v.
C22_UserValueKept_Original ==
    (UpdatedRegistered /\ outcome = "returned") =>
        current_allocations[arg_id] = arg_value

\* C22 amended: the requested v is what update_allocation stores for d
\* before renormalization; after a call that returns,
\* current_allocations[d] is v * 100 / T, T being the total before
\* renormalization, which is v itself when T is 100.
C22_UserValueKept ==
    UpdatedRegistered =>
        /\ at_normalize[arg_id] = arg_value
        /\ outcome = "returned" =>
              /\ current_allocations[arg_id] =
                    RDiv(RMul(arg_value, Pct(100)), Sum(at_normalize))
              /\ Sum(at_normalize) = Pct(100) =>
                    current_allocations[arg_id] = arg_value

\* a returned update left the driver at a value other than the requested one
C22_Witness ==
    /\ UpdatedRegistered
    /\ outcome = "returned"
    /\ arg_id = "envelope"
    /\ arg_value = Pct(25)
    /\ current_allocations[arg_id] = Rat(25000, 1089)

\* every slider position d, v leaves allocations within the slider range
\* when update_allocation is called on a model as constructed
SliderRangeClosed ==
    \A d \in CategoryIds, v \in SliderValues :
        LET r == UpdateAllocation(CostModelInit(DEFAULT_PROJECT_COST), d, v)
        IN  /\ r.outcome = "returned"
            /\ \A c \in CategoryIds :
                  /\ ~RLess(r.self.current_allocations[c], Pct(SliderMin))
                  /\ ~RLess(Pct(SliderMax), r.self.current_allocations[c])

\* C26: slider-range closure.  For every registered category d and every v
\* of the slider range [0, 30] (step 0.5), every allocation after
\* update_allocation(d, v) lies within [0, 30], whatever the state the call
\* was made in, so the values written back to the sliders are never negative
\* and never above the slider maximum.
C26_SliderRangeClosure ==
    /\ SliderRangeClosed
    /\ (UpdatedRegistered /\ arg_value \in SliderValues) =>
          /\ outcome = "returned"
          /\ \A c \in CategoryIds :
                /\ ~RLess(current_allocations[c], Pct(SliderMin))
                /\ ~RLess(Pct(SliderMax), current_allocations[c])

\* a slider was moved to its maximum on a changed model and the call rescaled
C26_Witness ==
    /\ UpdatedRegistered
    /\ changed_before
    /\ arg_value = Pct(SliderMax)
    /\ outcome = "returned"
    /\ RLess(current_allocations[arg_id], Pct(SliderMax))

\* C27: atomic failure.  Whenever update_allocation ends in an error, the
\* zero-total case included, current_allocations and adjustments are what
\* they were before the call, and the allocations left behind sum to 100.
C27_AtomicFailure ==
    [][(op' = "update_allocation" /\ outcome' # "returned") =>
          /\ current_allocations' = current_allocations
          /\ adjustments' = adjustments
          /\ Sum(current_allocations') = Pct(100)]_vars

\* C29: reference data is never modified.  update_allocation and reset leave
\* base_allocations and total_project_cost unchanged, and in every reachable
\* state base_allocations equals the configured baseline percentages.
C29_ReferenceDataUnchanged ==
    /\ [](base_allocations = BasePercentages)
    /\ [][/\ base_allocations' = base_allocations
          /\ total_project_cost' = total_project_cost]_vars

\* an update moved the current allocations away from the base allocations
C29_Witness ==
    /\ UpdatedRegistered
    /\ changed_before
    /\ outcome = "returned"
    /\ current_allocations # base_allocations
    /\ base_allocations = BasePercentages
    /\ total_project_cost = DEFAULT_PROJECT_COST

----------------------------------------------------------------------------
(* Further claims about the pages.                                         *)

\* C24: the two Policy-A implementations agree.  For every category d and
\* slider value v, the allocations the Streamlit slider handler leaves in
\* st.session_state.allocations are, category by category, the
\* current_allocations CostModel.update_allocation(d, v) returns.
C24_PolicyAImplementationsAgree ==
    st_op = "slider" =>
        LET r == UpdateAllocation(CostModelInit(DEFAULT_PROJECT_COST),
                                  st_id, st_value)
        IN  /\ r.outcome = "returned"
            /\ \A c \in CategoryIds :
                  allocations[c] = r.self.current_allocations[c]

\* C25 as stated: for every selected strategy s, results[s] of v1 equals
\* results[s] of v2 in strategy mode.
C25_EnginesAgreePerStrategy_Original ==
    LET v1 == CalculateStrategyCosts(selected_strategies, building_area)
        v2 == CalculateCostsWithAdjustments(building_area, cost_adjustments,
                                            selected_strategies, FALSE)
    IN  StrategyResults =>
            \A s \in Range(selected_strategies) :
                /\ costs[s] = v1[s]
                /\ costs[s] = v2[s]

\* C25 amended: with exactly one selected strategy the two engines report
\* the same results[s]; with more, results[s] of v1 is results[s] of v2
\* changed by the combination rules of the pairs of s with the other
\* selected strategies, and results[s] of v2 carries the primary effects of s
\* alone.
C25_EnginesAgreePerStrategy ==
    LET S  == Range(selected_strategies)
        v1 == CalculateStrategyCosts(selected_strategies, building_area)
        v2 == CalculateCostsWithAdjustments(building_area, cost_adjustments,
                                            selected_strategies, FALSE)
        rules(s) == {k \in RulesWithin(S) : s \in {k[1], k[2]}}
    IN  StrategyResults =>
            \A s \in S :
                /\ costs[s] = (IF engine = "v1" THEN v1[s] ELSE v2[s])
                /\ v2[s] = ApplyEffects(BaseCosts(building_area),
                                        INTERDEPENDENCY_MATRIX[s])
                /\ v1[s] = ApplyRules(v2[s], COMBINATION_EFFECTS, rules(s))
                /\ Cardinality(S) = 1 => v1[s] = v2[s]
                /\ rules(s) # {} => v1[s] # v2[s]

\* v2 reported per-strategy results for two selected strategies, which differ
\* from those of v1 by the rule of the pair
C25_Witness ==
    /\ engine = "v2"
    /\ ~manual_mode
    /\ selected_strategies = <<"envelope_mechanical", "waste_heat_recovery">>
    /\ building_area = DefaultArea
    /\ costs["envelope_mechanical"]["mechanical"] = Pct(22000000)
    /\ CalculateStrategyCosts(selected_strategies, building_area)
           ["envelope_mechanical"]["mechanical"] = Pct(20240000)

\* C28: percentage and currency deltas agree.  After a slider-triggered
\* update_model call that returned, for every category c the dollar delta
\* get_deltas()[c] is total_project_cost * adjustments[c] / 100.
C28_DeltasAgree ==
    (CallbackReturned /\ cb_trigger = "slider") =>
        \A c \in CategoryIds :
            GetDeltas(Self).result[c] =
                RMul(Dollars(total_project_cost),
                     RDiv(adjustments[c], Pct(100)))

----------------------------------------------------------------------------
(* IEEE-754 binary64 arithmetic, for the claims where the rounding of      *)
(* Python's float operations decides.  A natural number is the sequence of *)
(* its digits in base 2^14, least significant first, without leading      *)
(* zeros; a float is [sign, m, e] with value sign * m * 2^e, where m has   *)
(* exactly 53 bits (or is zero).  Every operation rounds the exact result  *)
(* to nearest, ties to even.  The values that occur are far from the       *)
(* overflow and subnormal ranges.                                          *)

LimbBits == 14
Base == 2^LimbBits
MantissaBits == 53

RECURSIVE NTrim(_)
NTrim(a) ==
    IF a = << >> THEN << >>
    ELSE IF a[Len(a)] = 0 THEN NTrim(SubSeq(a, 1, Len(a) - 1))
    ELSE a

RECURSIVE NFromInt(_)
NFromInt(n) ==
    IF n = 0 THEN << >> ELSE <<n % Base>> \o NFromInt(n \div Base)

RECURSIVE NAddC(_, _, _)
NAddC(a, b, c) ==
    IF a = << >> /\ b = << >> THEN (IF c = 0 THEN << >> ELSE <<c>>)
    ELSE LET x == IF a = << >> THEN 0 ELSE Head(a)
             y == IF b = << >> THEN 0 ELSE Head(b)
             t == x + y + c
         IN  <<t % Base>> \o NAddC(IF a = << >> THEN a ELSE Tail(a),
                                   IF b = << >> THEN b ELSE Tail(b),
                                   t \div Base)

NAdd(a, b) == NAddC(a, b, 0)

RECURSIVE NSubB(_, _, _)
\* a - b - c for a >= b + c
NSubB(a, b, c) ==
    IF a = << >> THEN << >>
    ELSE LET y == IF b = << >> THEN 0 ELSE Head(b)
             t == Head(a) - y - c
         IN  <<IF t < 0 THEN t + Base ELSE t>>
                 \o NSubB(Tail(a), IF b = << >> THEN b ELSE Tail(b),
                          IF t < 0 THEN 1 ELSE 0)

NSub(a, b) == NTrim(NSubB(a, b, 0))

RECURSIVE NMulSmallC(_, _, _)
\* a * k + c for 0 <= k < Base
NMulSmallC(a, k, c) ==
    IF a = << >> THEN (IF c = 0 THEN << >> ELSE <<c>>)
    ELSE LET t == Head(a) * k + c
         IN  <<t % Base>> \o NMulSmallC(Tail(a), k, t \div Base)

NMulSmall(a, k) == IF k = 0 THEN << >> ELSE NMulSmallC(a, k, 0)

\* a * Base^n
NShiftLimbs(a, n) ==
    IF a = << >> THEN << >> ELSE [i \in 1..n |-> 0] \o a

RECURSIVE NMul(_, _)
NMul(a, b) ==
    IF a = << >> \/ b = << >> THEN << >>
    ELSE NAdd(NMulSmall(a, Head(b)), NShiftLimbs(NMul(a, Tail(b)), 1))

RECURSIVE NDivRem(_, _)
\* quotient (not trimmed) and remainder of a by k, 0 < k < Base
NDivRem(a, k) ==
    IF a = << >> THEN [q |-> << >>, r |-> 0]
    ELSE LET hi  == NDivRem(Tail(a), k)
             cur == hi.r * Base + Head(a)
         IN  [q |-> <<cur \div k>> \o hi.q, r |-> cur % k]

NDivSmall(a, k) == NTrim(NDivRem(a, k).q)

RECURSIVE BitLen(_)
BitLen(n) == IF n = 0 THEN 0 ELSE 1 + BitLen(n \div 2)

NBitLen(a) ==
    IF a = << >> THEN 0 ELSE LimbBits * (Len(a) - 1) + BitLen(a[Len(a)])

\* a * 2^s
NShl(a, s) == NShiftLimbs(NMulSmall(a, 2^(s % LimbBits)), s \div LimbBits)

\* a \div 2^s
NShr(a, s) ==
    IF s \div LimbBits >= Len(a) THEN << >>
    ELSE NDivSmall(SubSeq(a, s \div LimbBits + 1, Len(a)), 2^(s % LimbBits))

\* bit i of a
NBit(a, i) ==
    IF i \div LimbBits + 1 > Len(a) THEN 0
    ELSE (a[i \div LimbBits + 1] \div 2^(i % LimbBits)) % 2

\* the bits of a below bit s are all zero
NLowZero(a, s) ==
    /\ \A j \in 1..(s \div LimbBits) : j <= Len(a) => a[j] = 0
    /\ s \div LimbBits + 1 <= Len(a) =>
          a[s \div LimbBits + 1] % 2^(s % LimbBits) = 0

\* the float nearest to n * 2^e (ties to even), for a natural n # 0: its
\* mantissa and exponent
RoundNat(n, e) ==
    LET len == NBitLen(n)
    IN  IF len <= MantissaBits
        THEN [m |-> NShl(n, MantissaBits - len), e |-> e - (MantissaBits - len)]
        ELSE LET s  == len - MantissaBits
                 q  == NShr(n, s)
                 up == /\ NBit(n, s - 1) = 1
                       /\ ~NLowZero(n, s - 1) \/ NBit(q, 0) = 1
                 q1 == IF up THEN NAdd(q, <<1>>) ELSE q
             IN  IF NBitLen(q1) > MantissaBits
                 THEN [m |-> NShr(q1, 1), e |-> e + s + 1]
                 ELSE [m |-> q1, e |-> e + s]

FZero == [sign |-> 0, m |-> << >>, e |-> 0]

\* the float of sign * n * 2^e
FRound(sign, n, e) ==
    IF n = << >> \/ sign = 0 THEN FZero
    ELSE LET r == RoundNat(n, e) IN [sign |-> sign, m |-> r.m, e |-> r.e]

\* float(i) for a Python int i
FFromInt(i) ==
    FRound(IF i < 0 THEN -1 ELSE 1, NFromInt(IF i < 0 THEN -i ELSE i), 0)

\* how many binary places an integer quotient is taken to before rounding
QuotientPlaces == 70

\* a / b for Python ints a and b, 0 < b < 2^14: the quotient is taken to
\* QuotientPlaces binary places (more than 53 significant bits) and a last
\* bit records whether anything was cut off, which is all the rounding needs
FDivInt(a, b) ==
    LET d == NDivRem(NShl(NFromInt(IF a < 0 THEN -a ELSE a), QuotientPlaces), b)
        n == NAdd(NMulSmall(NTrim(d.q), 2), IF d.r = 0 THEN << >> ELSE <<1>>)
    IN  FRound(IF a < 0 THEN -1 ELSE 1, n, -(QuotientPlaces + 1))

\* x * y
FMul(x, y) == FRound(x.sign * y.sign, NMul(x.m, y.m), x.e + y.e)

\* a < b for naturals of the same scale
NLess(a, b) ==
    \/ Len(a) < Len(b)
    \/ /\ Len(a) = Len(b)
       /\ \E i \in 1..Len(a) :
             /\ a[i] < b[i]
             /\ \A j \in (i + 1)..Len(a) : a[j] = b[j]

\* x + y
FAdd(x, y) ==
    IF x.sign = 0 THEN y
    ELSE IF y.sign = 0 THEN x
    ELSE LET e  == IF x.e < y.e THEN x.e ELSE y.e
             nx == NShl(x.m, x.e - e)
             ny == NShl(y.m, y.e - e)
         IN  IF x.sign = y.sign THEN FRound(x.sign, NAdd(nx, ny), e)
             ELSE IF nx = ny THEN FZero
             ELSE IF NLess(nx, ny) THEN FRound(y.sign, NSub(ny, nx), e)
             ELSE FRound(x.sign, NSub(nx, ny), e)

----------------------------------------------------------------------------
(* The strategy engines as Python computes them, in binary64.  The         *)
(* operators repeat those of the exact engines above, with every           *)
(* multiplication rounded.                                                 *)

\* the percentages that occur as effect or as manual adjustment
Effects == ManualMin..ManualMax

\* (1 + effect / 100), as Python evaluates it
FactorTable ==
    [effect \in Effects |-> FAdd(FFromInt(1), FDivInt(effect, 100))]

\* cost *= (1 + effect / 100)
FScale(cost, effect) == FMul(cost, FactorTable[effect])

\* base_costs: ints, exact as floats
FBaseCosts(area) ==
    [div \in DOMAIN CSI_DIVISIONS |->
        FFromInt(CSI_DIVISIONS[div].base_cost_psf * area)]

FApplyEffects(cs, effects) ==
    [div \in DOMAIN cs |->
        IF div \in DOMAIN effects THEN FScale(cs[div], effects[div]) ELSE cs[div]]

RECURSIVE FApplyCombinations(_, _, _)
FApplyCombinations(cs, strategy, others) ==
    IF others = << >> THEN cs
    ELSE LET other_strategy == Head(others)
             combo_key == ComboKey(strategy, other_strategy)
         IN  FApplyCombinations(
                 IF /\ other_strategy # strategy
                    /\ combo_key \in DOMAIN COMBINATION_EFFECTS
                 THEN FApplyEffects(cs, COMBINATION_EFFECTS[combo_key])
                 ELSE cs,
                 strategy, Tail(others))

FStrategyCosts(strategy, selected, base_costs) ==
    IF strategy \in Range(selected)
    THEN FApplyCombinations(
             FApplyEffects(base_costs, INTERDEPENDENCY_MATRIX[strategy]),
             strategy, selected)
    ELSE base_costs

\* v1: calculate_strategy_costs(selected_strategies, building_area)
FCalculateStrategyCosts(selected, area) ==
    LET base_costs == FBaseCosts(area)
    IN  [k \in Range(STRATEGIES) \cup {"baseline"} |->
            IF k = "baseline" THEN base_costs
            ELSE FStrategyCosts(k, selected, base_costs)]

RECURSIVE FCombinedCosts(_, _)
FCombinedCosts(cs, selected) ==
    IF selected = << >> THEN cs
    ELSE FCombinedCosts(FApplyEffects(cs, INTERDEPENDENCY_MATRIX[Head(selected)]),
                        Tail(selected))

\* v2: calculate_costs_with_adjustments(building_area, cost_adjustments,
\* selected_strategies)
FCalculateCostsWithAdjustments(area, adjs, selected, manual) ==
    LET base_costs == FBaseCosts(area)
    IN  IF manual
        THEN [k \in {"manual", "baseline"} |->
                IF k = "baseline" THEN base_costs
                ELSE [div \in DOMAIN base_costs |->
                        FScale(base_costs[div], adjs[div])]]
        ELSE [k \in {"baseline"}
                    \cup (IF selected # << >>
                          THEN {"combined"} \cup Range(selected) ELSE {}) |->
                IF k = "baseline" THEN base_costs
                ELSE IF k = "combined" THEN FCombinedCosts(base_costs, selected)
                ELSE FApplyEffects(base_costs, INTERDEPENDENCY_MATRIX[k])]

\* v1 called on the inputs of the page
calculate_strategy_costs_binary64 ==
    /\ engine = "none"
    /\ engine' = "v1"
    /\ costs' = FCalculateStrategyCosts(selected_strategies, building_area)
    /\ UNCHANGED <<selected_strategies, building_area, manual_mode,
                   cost_adjustments>>
    /\ UNCHANGED <<modelVars, dashVars, streamlitVars>>

\* v2 called on the inputs of the page
calculate_costs_with_adjustments_binary64 ==
    /\ engine = "none"
    /\ engine' = "v2"
    /\ costs' = FCalculateCostsWithAdjustments(building_area, cost_adjustments,
                                               selected_strategies, manual_mode)
    /\ UNCHANGED <<selected_strategies, building_area, manual_mode,
                   cost_adjustments>>
    /\ UNCHANGED <<modelVars, dashVars, streamlitVars>>

StrategyFloatNext ==
    \/ calculate_strategy_costs_binary64
    \/ calculate_costs_with_adjustments_binary64

SpecStrategyFloat == StrategyInit /\ [][StrategyFloatNext]_vars

\* the orderings of the selected strategies
Orderings(selected) == {p \in Selections : Range(p) = Range(selected)}

\* C23: order independence of strategy selection.  For every set of
\* selected strategies, v1 and v2 (in strategy mode) return the same costs
\* for every ordering of the selected_strategies list.
C23_OrderIndependence ==
    StrategyResults =>
        \A p \in Orderings(selected_strategies) :
            costs = (IF engine = "v1"
                     THEN FCalculateStrategyCosts(p, building_area)
                     ELSE FCalculateCostsWithAdjustments(
                              building_area, cost_adjustments, p, FALSE))

====
